---- MODULE Spec2Model ----
(***************************************************************************)
(* QA dataset generator: the chunker, the generator's retry loop, the      *)
(* response parser, the validator, the context manager and the             *)
(* process_document pipeline, modelled from src/agents.py and src/main.py. *)
(* Text is a sequence of one-character strings; positions are 0-based as   *)
(* in Python wherever an operator is named after a Python one.  An         *)
(* Optional value is None (the empty tuple) or the one-element tuple of    *)
(* its value.  A confidence is counted in tenths (1.0 is 10).              *)
(***************************************************************************)
EXTENDS Integers, Sequences, FiniteSets, TLC

VARIABLES
    \* TextProcessingAgent.create_chunks
    text,           \* the text being chunked
    chunk_size,     \* self.chunk_size
    overlap,        \* self.overlap
    start,          \* loop variable start
    end,            \* end of the last window processed
    chunks,         \* the list being built / returned
    windows,        \* log of the windows processed, <<start, end>> each
    cc_pc,          \* "off" | "idle" | "loop" | "returned" | "raised"
    \* QAGenerationAgent.generate_qa_pairs
    gen_chunk,      \* argument chunk
    gen_context,    \* argument context (Optional)
    retry_count,    \* argument retry_count
    attempt,        \* loop variable attempt
    prompt,         \* local prompt
    requests,       \* log of the prompts sent to the backend by this call
    outcomes,       \* log of the outcome of each request, "ok" | "failed"
    gen_response,   \* response_text: content of the response handed to the parser
    gen_result,     \* the list returned
    gen_pc,         \* "idle" | "trying" | "returned" | "parsed"
    \* ValidationAgent.validate_qa_pairs
    val_pairs,      \* argument qa_pairs
    val_feedback,   \* content of the response, when the request succeeded
    val_result,     \* the list returned
    val_pc,         \* "idle" | "applied" | "failed"
    \* ContextManager
    context_history,    \* self.context_history
    ctx_chunk,      \* argument chunk of the last update_context call
    ctx_ret,        \* value returned by the last update_context call
    ctx_pc,         \* "idle" | "ok" | "failed": outcome of the last call
    ctx_before,     \* context_history as it was when the last call began
    summaries,      \* log of the summaries of all successful calls
    ctx_calls,      \* number of update_context calls made
    \* DatasetGenerator.process_document
    is_pdf,         \* argument is_pdf
    arg_chunk_size, \* argument chunk_size
    arg_overlap,    \* argument overlap
    stats,          \* self.stats
    all_qa_pairs,   \* local all_qa_pairs
    context,        \* local context (Optional)
    chunk_index,    \* loop variable i
    saved,          \* log of the save_qa_pairs calls: the pairs and stats written
    status,         \* the value returned
    chunk_log,      \* log of the chunk iterations completed
    run,            \* number of process_document calls made on this instance
    pd_pc           \* "idle" | "extract" | "chunking" | "loop" | "generating"
                    \* | "summarizing" | "done"

chunker_vars == <<text, chunk_size, overlap, start, end, chunks, windows, cc_pc>>

gen_vars == <<gen_chunk, gen_context, retry_count, attempt, prompt, requests,
              outcomes, gen_response, gen_result, gen_pc>>

val_vars == <<val_pairs, val_feedback, val_result, val_pc>>

ctx_vars == <<context_history, ctx_chunk, ctx_ret, ctx_pc, ctx_before, summaries,
              ctx_calls>>

pd_vars == <<is_pdf, arg_chunk_size, arg_overlap, stats, all_qa_pairs, context,
             chunk_index, saved, status, chunk_log, run, pd_pc>>

vars == <<chunker_vars, gen_vars, val_vars, ctx_vars, pd_vars>>

-----------------------------------------------------------------------------
(* Bounds of the model *)

MaxTextLen == 5
MaxChunkSize == 3
MaxOverlap == 3
MaxIter == 6
MaxRetry == 3
MaxBatch == 2
MaxCalls == 5
MaxExtra == 2
MaxRuns == 2
MaxLines == 4

None == <<>>
Some(x) == <<x>>

-----------------------------------------------------------------------------
(* Python string operations *)

NL == "\n"
Whitespace == {" ", NL, "\t", "\r"}
Alphabet == {"a", ".", " ", NL}

Max(S) == CHOOSE x \in S : \A y \in S : y <= x
Min(S) == CHOOSE x \in S : \A y \in S : x <= y

\* index normalisation of a slice bound
SliceIndex(i, n) == IF i < 0 THEN Max({i + n, 0}) ELSE Min({i, n})

\* s[a:b]
PySlice(s, a, b) ==
    LET lo == SliceIndex(a, Len(s))
        hi == SliceIndex(b, Len(s))
    IN  IF lo >= hi THEN <<>> ELSE SubSeq(s, lo + 1, hi)

\* s.rfind(pat): highest 0-based index of an occurrence, -1 when there is none
RFind(s, pat) ==
    LET hits == {i \in 0..(Len(s) - Len(pat)) : SubSeq(s, i + 1, i + Len(pat)) = pat}
    IN  IF hits = {} THEN -1 ELSE Max(hits)

\* s.strip()
Strip(s) ==
    LET keep == {i \in 1..Len(s) : s[i] \notin Whitespace}
    IN  IF keep = {} THEN <<>> ELSE SubSeq(s, Min(keep), Max(keep))

-----------------------------------------------------------------------------
(* TextProcessingAgent.create_chunks *)

DefaultChunkSize == 2000
DefaultOverlap == 200

Paragraph == <<NL, NL>>
Sentence == <<".", " ">>
Line == <<NL>>

\* keys of the break_candidates dict for the window text[s:e]
BreakCandidates(t, s, e) ==
    LET w == PySlice(t, s, e)
    IN  {RFind(w, Paragraph), RFind(w, Sentence), RFind(w, Line)}

FoundPoints(t, s, e) == BreakCandidates(t, s, e) \ {-1}

\* the window is not the last one (end < len(text)) and max() gets no point
MaxRaises(t, s, cs) ==
    /\ s + cs < Len(t)
    /\ FoundPoints(t, s, s + cs) = {}

\* a cut at the first marker found in the order paragraph, sentence, line
WindowEndByPriority(t, s, cs) ==
    IF s + cs < Len(t)
    THEN LET w == PySlice(t, s, s + cs)
             break_point == IF RFind(w, Paragraph) # -1 THEN RFind(w, Paragraph)
                            ELSE IF RFind(w, Sentence) # -1 THEN RFind(w, Sentence)
                            ELSE RFind(w, Line)
         IN  IF break_point # -1 THEN s + break_point + 1 ELSE s + cs
    ELSE s + cs

\* value of end when the chunk is cut
WindowEnd(t, s, cs) ==
    IF s + cs < Len(t)
    THEN LET break_point == Max(FoundPoints(t, s, s + cs))
         IN  IF break_point # -1 THEN s + break_point + 1 ELSE s + cs
    ELSE s + cs

AppendChunk(cs, chunk) == IF chunk # <<>> THEN Append(cs, chunk) ELSE cs

NextStart(e, ov) == e - ov

\* create_chunks as a function of the text and the configuration: the outcome
\* and the chunks after at most fuel further iterations from start s
RECURSIVE ChunksFrom(_, _, _, _, _, _)
ChunksFrom(t, cs, ov, s, acc, fuel) ==
    IF s >= Len(t) THEN [outcome |-> "returned", chunks |-> acc]
    ELSE IF MaxRaises(t, s, cs) THEN [outcome |-> "raised", chunks |-> acc]
    ELSE IF fuel = 0 THEN [outcome |-> "running", chunks |-> acc]
    ELSE LET e == WindowEnd(t, s, cs)
         IN  ChunksFrom(t, cs, ov, NextStart(e, ov),
                        AppendChunk(acc, Strip(PySlice(t, s, e))), fuel - 1)

CreateChunks(t, cs, ov) == ChunksFrom(t, cs, ov, 0, <<>>, MaxIter)

CreateChunksCall ==
    /\ cc_pc = "idle"
    /\ cc_pc' = "loop"
    /\ chunks' = <<>>
    /\ start' = 0
    /\ windows' = <<>>
    /\ UNCHANGED <<text, chunk_size, overlap, end>>

\* one iteration of the while loop that completes
ChunkIterate ==
    /\ cc_pc = "loop"
    /\ start < Len(text)
    /\ Len(windows) < MaxIter
    /\ ~MaxRaises(text, start, chunk_size)
    /\ LET e == WindowEnd(text, start, chunk_size)
       IN  /\ end' = e
           /\ chunks' = AppendChunk(chunks, Strip(PySlice(text, start, e)))
           /\ windows' = Append(windows, <<start, e>>)
           /\ start' = NextStart(e, overlap)
    /\ UNCHANGED <<text, chunk_size, overlap, cc_pc>>

\* an iteration in which max() of no break point raises ValueError
ChunkRaise ==
    /\ cc_pc = "loop"
    /\ start < Len(text)
    /\ MaxRaises(text, start, chunk_size)
    /\ cc_pc' = "raised"
    /\ end' = start + chunk_size
    /\ UNCHANGED <<text, chunk_size, overlap, start, chunks, windows>>

\* the loop condition fails and the list is returned
ChunkReturn ==
    /\ cc_pc = "loop"
    /\ start >= Len(text)
    /\ cc_pc' = "returned"
    /\ UNCHANGED <<text, chunk_size, overlap, start, end, chunks, windows>>

-----------------------------------------------------------------------------
(* QAPair and QAGenerationAgent._parse_qa_response *)

DefaultConfidence == 10

QAPair(q, a, source_type) ==
    [question |-> q, answer |-> a, confidence |-> DefaultConfidence,
     metadata |-> source_type]

QuestionPrefixes ==
    { <<"Q", "1", ":">>, <<"Q", "2", ":">>, <<"Q", "3", ":">>, <<"Q", ":">>,
      <<"Q", "u", "e", "s", "t", "i", "o", "n", ":">> }

AnswerPrefixes ==
    { <<"A", "1", ":">>, <<"A", "2", ":">>, <<"A", "3", ":">>, <<"A", ":">>,
      <<"A", "n", "s", "w", "e", "r", ":">> }

\* s.startswith(p)
StartsWith(s, p) == Len(s) >= Len(p) /\ SubSeq(s, 1, Len(p)) = p

StartsWithAny(s, prefixes) == \E p \in prefixes : StartsWith(s, p)

\* s.split('\n')
RECURSIVE SplitLines(_)
SplitLines(s) ==
    LET nls == {i \in 1..Len(s) : s[i] = NL}
    IN  IF nls = {} THEN <<s>>
        ELSE <<SubSeq(s, 1, Min(nls) - 1)>> \o SplitLines(SubSeq(s, Min(nls) + 1, Len(s)))

NonEmpty(s) == s # <<>>

\* [line.strip() for line in response_text.strip().split('\n') if line.strip()]
ResponseLines(response_text) ==
    LET raw == SplitLines(Strip(response_text))
    IN  SelectSeq([i \in 1..Len(raw) |-> Strip(raw[i])], NonEmpty)

\* line.split(':', 1)[1].strip()
AfterColon(line) ==
    LET colons == {i \in 1..Len(line) : line[i] = ":"}
    IN  Strip(SubSeq(line, Min(colons) + 1, Len(line)))

\* a loop body that forgets to clear the question and answer after a pair
ParseLineWithoutReset(st, line) ==
    IF StartsWithAny(line, QuestionPrefixes)
    THEN [q |-> Some(AfterColon(line)),
          a |-> None,
          pairs |-> IF st.q # None /\ st.a # None
                    THEN Append(st.pairs, QAPair(st.q[1], st.a[1], "groq_llama2"))
                    ELSE st.pairs]
    ELSE IF StartsWithAny(line, AnswerPrefixes)
    THEN IF st.q # None
         THEN [q |-> st.q, a |-> Some(AfterColon(line)),
               pairs |-> Append(st.pairs, QAPair(st.q[1], AfterColon(line), "groq_llama2"))]
         ELSE [st EXCEPT !.a = Some(AfterColon(line))]
    ELSE st

\* a loop body that keeps an earlier answer when a new question starts
ParseLineKeepingAnswer(st, line) ==
    IF StartsWithAny(line, QuestionPrefixes)
    THEN [q |-> Some(AfterColon(line)),
          a |-> st.a,
          pairs |-> IF st.q # None /\ st.a # None
                    THEN Append(st.pairs, QAPair(st.q[1], st.a[1], "groq_llama2"))
                    ELSE st.pairs]
    ELSE IF StartsWithAny(line, AnswerPrefixes)
    THEN IF st.q # None
         THEN [q |-> None, a |-> None,
               pairs |-> Append(st.pairs, QAPair(st.q[1], AfterColon(line), "groq_llama2"))]
         ELSE [st EXCEPT !.a = Some(AfterColon(line))]
    ELSE st

\* the loop body for one line; st is [q, a, pairs] with q, a Optional
ParseLine(st, line) ==
    IF StartsWithAny(line, QuestionPrefixes)
    THEN [q |-> Some(AfterColon(line)),
          a |-> None,
          pairs |-> IF st.q # None /\ st.a # None
                    THEN Append(st.pairs, QAPair(st.q[1], st.a[1], "groq_llama2"))
                    ELSE st.pairs]
    ELSE IF StartsWithAny(line, AnswerPrefixes)
    THEN IF st.q # None
         THEN [q |-> None, a |-> None,
               pairs |-> Append(st.pairs, QAPair(st.q[1], AfterColon(line), "groq_llama2"))]
         ELSE [st EXCEPT !.a = Some(AfterColon(line))]
    ELSE st

RECURSIVE ParseLines(_, _)
ParseLines(st, lines) ==
    IF lines = <<>> THEN st ELSE ParseLines(ParseLine(st, Head(lines)), Tail(lines))

\* the remaining complete pair, if any
FlushRemaining(st) ==
    IF st.q # None /\ st.a # None
    THEN Append(st.pairs, QAPair(st.q[1], st.a[1], "llama-3.1-70b-versatile"))
    ELSE st.pairs

PairIsValid(pair) ==
    /\ pair.question # <<>>
    /\ pair.answer # <<>>
    /\ Len(Strip(pair.question)) > 0
    /\ Len(Strip(pair.answer)) > 0

ParseQAResponse(response_text) ==
    LET st == ParseLines([q |-> None, a |-> None, pairs |-> <<>>],
                         ResponseLines(response_text))
    IN  SelectSeq(FlushRemaining(st), PairIsValid)

-----------------------------------------------------------------------------
(* QAGenerationAgent.generate_qa_pairs *)

DefaultRetryCount == 2

\* Prompts.CONTEXT_INSTRUCTION.format(context=context) if context else ""
ContextInstruction(ctx) ==
    IF ctx # None /\ ctx[1] # <<>>
    THEN [template |-> "CONTEXT_INSTRUCTION", context |-> ctx[1]]
    ELSE [template |-> "", context |-> <<>>]

QAGenerationPrompt(chunk, context_instruction) ==
    [template |-> "QA_GENERATION", text_content |-> chunk,
     context_instruction |-> context_instruction]

ErrorRecoveryPrompt(chunk, context_instruction) ==
    [template |-> "ERROR_RECOVERY", text_content |-> chunk,
     context_instruction |-> context_instruction]

NoPrompt == [template |-> "", text_content |-> <<>>,
             context_instruction |-> ContextInstruction(None)]

\* a retry that sends the original prompt again
RetryPromptUnchanged(chunk, context_instruction) ==
    QAGenerationPrompt(chunk, context_instruction)

\* the prompt of the request that follows a failed one
RetryPrompt(chunk, context_instruction) ==
    ErrorRecoveryPrompt(chunk, context_instruction)

\* a budget check that allows one request too many
BudgetExhaustedLate(att, rc) == att = rc + 1

\* the failed attempt was the last one of the budget
BudgetExhausted(att, rc) == att = rc

\* contents the backend may answer a generation request with
Responses ==
    { <<"Q", "1", ":", " ", "a", NL, "A", "1", ":", " ", "b">>,
      <<"Q", "1", ":", " ", "a", NL, "A", "1", ":", " ", "b", NL,
        "Q", "2", ":", " ", "c", NL, "A", "2", ":", " ", "d">>,
      <<"h", "e", "l", "l", "o">>,
      <<"Q", ":", " ", "a", NL, "A", ":">> }

\* entry of generate_qa_pairs up to the first request
GenerateStart(chunk, ctx, rc) ==
    /\ gen_pc' = "trying"
    /\ gen_chunk' = chunk
    /\ gen_context' = ctx
    /\ retry_count' = rc
    /\ attempt' = 0
    /\ prompt' = QAGenerationPrompt(chunk, ContextInstruction(ctx))
    /\ requests' = <<>>
    /\ outcomes' = <<>>
    /\ gen_response' = <<>>
    /\ gen_result' = <<>>

\* a request that succeeds: its response is parsed and returned
GenAttemptSucceedsWith(contents) ==
    /\ gen_pc = "trying"
    /\ \E r \in contents :
          /\ gen_response' = r
          /\ gen_result' = ParseQAResponse(r)
    /\ requests' = Append(requests, prompt)
    /\ outcomes' = Append(outcomes, "ok")
    /\ gen_pc' = "returned"
    /\ UNCHANGED <<gen_chunk, gen_context, retry_count, attempt, prompt>>

\* a request that fails: the except branch
GenAttemptFails ==
    /\ gen_pc = "trying"
    /\ requests' = Append(requests, prompt)
    /\ outcomes' = Append(outcomes, "failed")
    /\ IF BudgetExhausted(attempt, retry_count)
       THEN /\ gen_result' = <<>>
            /\ gen_pc' = "returned"
            /\ UNCHANGED <<attempt, prompt>>
       ELSE /\ prompt' = RetryPrompt(gen_chunk, ContextInstruction(gen_context))
            /\ attempt' = attempt + 1
            /\ UNCHANGED <<gen_result, gen_pc>>
    /\ UNCHANGED <<gen_chunk, gen_context, retry_count, gen_response>>

GenAttemptSucceeds == GenAttemptSucceedsWith(Responses)

GenChunks == { <<"a">>, <<"a", " ", "b">> }
GenContexts == { None, Some(<<>>), Some(<<"c">>) }

-----------------------------------------------------------------------------
(* ValidationAgent *)

ValidConfidence == 10
InvalidConfidence == 5

UpperCase == <<"A", "B", "C", "D", "E", "F", "G", "H", "I", "J", "K", "L", "M", "N", "O", "P", "Q", "R", "S", "T", "U", "V", "W", "X", "Y", "Z">>
LowerCase == <<"a", "b", "c", "d", "e", "f", "g", "h", "i", "j", "k", "l", "m", "n", "o", "p", "q", "r", "s", "t", "u", "v", "w", "x", "y", "z">>

LowerChar(c) ==
    IF \E i \in 1..Len(UpperCase) : UpperCase[i] = c
    THEN LowerCase[CHOOSE i \in 1..Len(UpperCase) : UpperCase[i] = c]
    ELSE c

\* s.lower()
Lower(s) == [i \in 1..Len(s) |-> LowerChar(s[i])]

\* needle in hay
Contains(needle, hay) ==
    \E i \in 0..(Len(hay) - Len(needle)) : SubSeq(hay, i + 1, i + Len(needle)) = needle

\* the literal of the test in _apply_validation_feedback
ValidMarker == <<"V", "A", "L", "I", "D", ":", " ", "t", "r", "u", "e">>

\* "VALID: true" in feedback.lower()
FeedbackSaysValid(feedback) == Contains(ValidMarker, Lower(feedback))

\* a validator that drops the pairs it judges invalid
ApplyFeedbackDroppingInvalid(qa_pairs, feedback) ==
    IF FeedbackSaysValid(feedback)
    THEN [i \in 1..Len(qa_pairs) |-> [qa_pairs[i] EXCEPT !.confidence = ValidConfidence]]
    ELSE <<>>

ApplyValidationFeedback(qa_pairs, feedback) ==
    [i \in 1..Len(qa_pairs) |->
        [qa_pairs[i] EXCEPT !.confidence =
            IF FeedbackSaysValid(feedback) THEN ValidConfidence ELSE InvalidConfidence]]

\* the list returned by the except branch
PairsOnFailure(qa_pairs) == qa_pairs

\* validate_qa_pairs when the request succeeds
ValidateOk(qa_pairs, feedback) ==
    /\ val_pairs' = qa_pairs
    /\ val_feedback' = feedback
    /\ val_result' = ApplyValidationFeedback(qa_pairs, feedback)
    /\ val_pc' = "applied"

\* validate_qa_pairs when the request fails
ValidateFail(qa_pairs) ==
    /\ val_pairs' = qa_pairs
    /\ val_feedback' = <<>>
    /\ val_result' = PairsOnFailure(qa_pairs)
    /\ val_pc' = "failed"

\* contents the backend may answer a validation request with
FeedbackHeads == { <<>>, <<"o", "k", " ">> }
FeedbackVerdicts == { <<"V", "A", "L", "I", "D", ":", " ", "t", "r", "u", "e">>,
                      <<"v", "a", "l", "i", "d", ":", " ", "t", "r", "u", "e">>,
                      <<"V", "a", "l", "i", "d", ":", " ", "T", "r", "u", "e">>,
                      <<"V", "A", "L", "I", "D", ":", " ", "f", "a", "l", "s", "e">>,
                      <<"V", "A", "L", "I", "D", ":", "t", "r", "u", "e">>,
                      <<>> }
FeedbackTails == { <<>>, <<NL, "F">> }

Feedbacks == {h \o v \o t : h \in FeedbackHeads, v \in FeedbackVerdicts, t \in FeedbackTails}

-----------------------------------------------------------------------------
(* ContextManager.update_context *)

HistoryCapacity == 3
FallbackLen == 500

\* a history that is never trimmed
HistoryWithoutEviction(history, summary) == Append(history, summary)

\* self.context_history after append(summary) and the pop(0) on overflow
HistoryAfterSummary(history, summary) ==
    LET appended == Append(history, summary)
    IN  IF Len(appended) > HistoryCapacity THEN Tail(appended) ELSE appended

\* self.context_history after the except branch
HistoryAfterFailure(history) == history

\* " ".join(list)
RECURSIVE JoinSpace(_)
JoinSpace(list) ==
    IF list = <<>> THEN <<>>
    ELSE IF Len(list) = 1 THEN list[1]
    ELSE list[1] \o <<" ">> \o JoinSpace(Tail(list))

\* the first characters of the chunk instead of the last ones
FallbackFromFront(chunk) == PySlice(chunk, 0, FallbackLen)

\* chunk[-500:]
FallbackContext(chunk) == PySlice(chunk, -FallbackLen, Len(chunk))

\* update_context when the summary request succeeds
UpdateContextOk(chunk, summary) ==
    /\ ctx_chunk' = chunk
    /\ ctx_before' = context_history
    /\ context_history' = HistoryAfterSummary(context_history, summary)
    /\ ctx_ret' = JoinSpace(context_history')
    /\ ctx_pc' = "ok"
    /\ summaries' = Append(summaries, summary)
    /\ ctx_calls' = ctx_calls + 1

\* update_context when the summary request fails
UpdateContextFail(chunk) ==
    /\ ctx_chunk' = chunk
    /\ ctx_before' = context_history
    /\ context_history' = HistoryAfterFailure(context_history)
    /\ ctx_ret' = FallbackContext(chunk)
    /\ ctx_pc' = "failed"
    /\ ctx_calls' = ctx_calls + 1
    /\ UNCHANGED summaries

\* contents the backend may answer a summary request with
Summaries == { <<"s">>, <<"t">> }

-----------------------------------------------------------------------------
(* DatasetGenerator.process_document *)

HighThreshold == 8

\* self.stats as __init__ sets it
InitialStats ==
    [total_chunks |-> 0, total_qa_pairs |-> 0, failed_chunks |-> 0,
     high_confidence |-> 0, low_confidence |-> 0]

\* the returned message: its kind, str(e) of an error message, and the statistics
\* a success message reports
NoStatus == [kind |-> "none", error |-> "", stats |-> InitialStats]

HighCount(pairs) == Cardinality({i \in 1..Len(pairs) : pairs[i].confidence > HighThreshold})

\* a statistics update without the else branch of the confidence test
StatsCountingHighOnly(st, validated_pairs) ==
    [st EXCEPT !.total_qa_pairs = @ + Len(validated_pairs),
               !.high_confidence = @ + HighCount(validated_pairs)]

\* the statistics update of one chunk
StatsAfterChunk(st, validated_pairs) ==
    [st EXCEPT !.total_qa_pairs = @ + Len(validated_pairs),
               !.high_confidence = @ + HighCount(validated_pairs),
               !.low_confidence = @ + (Len(validated_pairs) - HighCount(validated_pairs))]

\* a loop that never hands the returned context on
ContextNeverUpdated(returned) == None

\* context = self.context_manager.update_context(chunk)
ContextForNext(returned) == Some(returned)

\* documents the extraction may yield: three chunks "a", "b", "c" under the
\* default configuration, one chunk, no chunk, a first window without any
\* boundary marker, and a first window whose only marker is at offset 199
Spaces(n) == [i \in 1..n |-> " "]
Letters(n) == [i \in 1..n |-> "a"]

DocThree ==
    <<"a">> \o Spaces(1700) \o <<NL, "b">> \o Spaces(1700) \o <<NL>> \o Spaces(200) \o <<"c">>
DocOne == <<"a", "b">>
DocEmpty == <<>>
DocUnbroken == Letters(2001)
DocStalling == Letters(199) \o <<NL>> \o Letters(1900)

Documents == {DocThree, DocOne, DocEmpty, DocUnbroken, DocStalling}

\* contents the backend answers a validation request of the pipeline with
PipelineFeedbacks == { <<"V", "A", "L", "I", "D", ":", " ", "t", "r", "u", "e">>,
                       <<"V", "A", "L", "I", "D", ":", " ", "f", "a", "l", "s", "e">> }

\* contents the backend answers a generation request of the pipeline with
PipelineResponses ==
    { <<"Q", "1", ":", " ", "a", NL, "A", "1", ":", " ", "b">>,
      <<"h", "e", "l", "l", "o">> }

\* values of the chunk_size and overlap arguments: the defaults and the largest
\* chunk size the interface offers
LargestChunkSize == 4000

ArgChunkSizes == {DefaultChunkSize, LargestChunkSize}
ArgOverlaps == {DefaultOverlap}

\* entry of process_document: the arguments are bound, nothing else changes
ProcessDocumentEntry ==
    /\ pd_pc' = "extract"
    /\ run' = run + 1
    /\ is_pdf' \in BOOLEAN
    /\ arg_chunk_size' \in ArgChunkSizes
    /\ arg_overlap' \in ArgOverlaps
    /\ status' = NoStatus
    /\ UNCHANGED <<stats, all_qa_pairs, context, chunk_index, saved, chunk_log>>
    /\ UNCHANGED <<chunker_vars, gen_vars, val_vars, ctx_vars>>

\* the first process_document call on a DatasetGenerator
ProcessDocumentCall ==
    /\ pd_pc = "idle"
    /\ ProcessDocumentEntry

\* a further process_document call on the same DatasetGenerator
ProcessDocumentAgain ==
    /\ pd_pc = "done"
    /\ run < MaxRuns
    /\ ProcessDocumentEntry

\* extract_text_from_pdf or f.read() returns one of docs; create_chunks is entered
ExtractTextFrom(docs) ==
    /\ pd_pc = "extract"
    /\ pd_pc' = "chunking"
    /\ text' \in docs
    /\ cc_pc' = "idle"
    /\ UNCHANGED <<chunk_size, overlap, start, end, chunks, windows>>
    /\ UNCHANGED <<run, is_pdf, arg_chunk_size, arg_overlap, stats, all_qa_pairs, context,
                   chunk_index, saved, status, chunk_log>>
    /\ UNCHANGED <<gen_vars, val_vars, ctx_vars>>

ExtractText == ExtractTextFrom(Documents)

\* an extraction failure that still writes the (empty) output files
ExtractFailsAfterSave ==
    /\ pd_pc = "extract"
    /\ pd_pc' = "done"
    /\ saved' = Append(saved, [qa_pairs |-> <<>>, stats |-> stats])
    /\ status' = [kind |-> "error", error |-> "extraction", stats |-> stats]
    /\ UNCHANGED <<run, is_pdf, arg_chunk_size, arg_overlap, stats, all_qa_pairs, context,
                   chunk_index, chunk_log>>
    /\ UNCHANGED <<chunker_vars, gen_vars, val_vars, ctx_vars>>

\* the extraction raises: the outer except returns the error message
ExtractFails ==
    /\ pd_pc = "extract"
    /\ pd_pc' = "done"
    /\ status' = [kind |-> "error", error |-> "extraction", stats |-> stats]
    /\ UNCHANGED <<run, is_pdf, arg_chunk_size, arg_overlap, stats, all_qa_pairs, context,
                   chunk_index, saved, chunk_log>>
    /\ UNCHANGED <<chunker_vars, gen_vars, val_vars, ctx_vars>>

\* create_chunks returned: total_chunks is set and the chunk loop starts
ChunksCreated ==
    /\ pd_pc = "chunking"
    /\ cc_pc = "returned"
    /\ pd_pc' = "loop"
    /\ stats' = [stats EXCEPT !.total_chunks = Len(chunks)]
    /\ all_qa_pairs' = <<>>
    /\ context' = None
    /\ chunk_index' = 1
    /\ chunk_log' = <<>>
    /\ UNCHANGED <<run, is_pdf, arg_chunk_size, arg_overlap, saved, status>>
    /\ UNCHANGED <<chunker_vars, gen_vars, val_vars, ctx_vars>>

\* create_chunks raised: the outer except returns the error message
ChunkingRaised ==
    /\ pd_pc = "chunking"
    /\ cc_pc = "raised"
    /\ pd_pc' = "done"
    /\ status' = [kind |-> "error", error |-> "ValueError", stats |-> stats]
    /\ UNCHANGED <<run, is_pdf, arg_chunk_size, arg_overlap, stats, all_qa_pairs, context,
                   chunk_index, saved, chunk_log>>
    /\ UNCHANGED <<chunker_vars, gen_vars, val_vars, ctx_vars>>

\* The except branch of the chunk loop (failed_chunks += 1) has no action:
\* generate_qa_pairs, validate_qa_pairs and update_context catch every
\* exception of their requests themselves, and the statistics update between
\* them raises none, so stats.failed_chunks keeps the value __init__ gave it.

\* the next chunk: generate_qa_pairs(chunk, context) is entered
StartChunk ==
    /\ pd_pc = "loop"
    /\ chunk_index <= Len(chunks)
    /\ pd_pc' = "generating"
    /\ GenerateStart(chunks[chunk_index], context, DefaultRetryCount)
    /\ UNCHANGED <<run, is_pdf, arg_chunk_size, arg_overlap, stats, all_qa_pairs, context,
                   chunk_index, saved, status, chunk_log>>
    /\ UNCHANGED <<chunker_vars, val_vars, ctx_vars>>

\* a generation request of the pipeline succeeds
ChunkGenerated == GenAttemptSucceedsWith(PipelineResponses)

\* statistics and accumulation after validate_qa_pairs returned val_result'
AccumulateValidated ==
    /\ stats' = StatsAfterChunk(stats, val_result')
    /\ all_qa_pairs' = all_qa_pairs \o val_result'
    /\ pd_pc' = "summarizing"
    /\ UNCHANGED <<run, is_pdf, arg_chunk_size, arg_overlap, context, chunk_index, saved,
                   status, chunk_log>>
    /\ UNCHANGED <<chunker_vars, gen_vars, ctx_vars>>

\* generate_qa_pairs returned; the validation request succeeds
ValidateChunk ==
    /\ pd_pc = "generating"
    /\ gen_pc = "returned"
    /\ \E f \in PipelineFeedbacks : ValidateOk(gen_result, f)
    /\ AccumulateValidated

\* generate_qa_pairs returned; the validation request fails
ValidateChunkFails ==
    /\ pd_pc = "generating"
    /\ gen_pc = "returned"
    /\ ValidateFail(gen_result)
    /\ AccumulateValidated

\* the end of a chunk iteration once update_context has returned ctx_ret'
FinishChunk ==
    /\ context' = ContextForNext(ctx_ret')
    /\ chunk_log' = Append(chunk_log,
          [chunk |-> chunks[chunk_index],
           context |-> gen_context,
           gen_exhausted |-> (\A k \in 1..Len(outcomes) : outcomes[k] = "failed"),
           validated |-> Len(val_result),
           ctx_chunk |-> ctx_chunk',
           ctx_outcome |-> ctx_pc',
           ctx_ret |-> ctx_ret'])
    /\ chunk_index' = chunk_index + 1
    /\ pd_pc' = "loop"
    /\ UNCHANGED <<run, is_pdf, arg_chunk_size, arg_overlap, stats, all_qa_pairs, saved, status>>
    /\ UNCHANGED <<chunker_vars, gen_vars, val_vars>>

\* update_context(chunk) with a summary request that succeeds
SummarizeChunk ==
    /\ pd_pc = "summarizing"
    /\ \E s \in Summaries : UpdateContextOk(chunks[chunk_index], s)
    /\ FinishChunk

\* update_context(chunk) with a summary request that fails
SummarizeChunkFails ==
    /\ pd_pc = "summarizing"
    /\ UpdateContextFail(chunks[chunk_index])
    /\ FinishChunk

\* after the last chunk: save_qa_pairs and the status message
SaveResults ==
    /\ pd_pc = "loop"
    /\ chunk_index > Len(chunks)
    /\ saved' = Append(saved, [qa_pairs |-> all_qa_pairs, stats |-> stats])
    /\ status' = [kind |-> "success", error |-> "", stats |-> stats]
    /\ pd_pc' = "done"
    /\ UNCHANGED <<run, is_pdf, arg_chunk_size, arg_overlap, stats, all_qa_pairs, context,
                   chunk_index, chunk_log>>
    /\ UNCHANGED <<chunker_vars, gen_vars, val_vars, ctx_vars>>

-----------------------------------------------------------------------------
(* Specifications *)

RECURSIVE TextsOfLen(_)
TextsOfLen(n) ==
    IF n = 0 THEN {<<>>}
    ELSE {Append(t, c) : t \in TextsOfLen(n - 1), c \in Alphabet}

Texts == UNION {TextsOfLen(n) : n \in 0..MaxTextLen}

ChunkerOff ==
    /\ text = <<>>
    /\ chunk_size = DefaultChunkSize
    /\ overlap = DefaultOverlap
    /\ start = 0
    /\ end = 0
    /\ chunks = <<>>
    /\ windows = <<>>
    /\ cc_pc = "off"

GeneratorIdle ==
    /\ gen_chunk = <<>>
    /\ gen_context = None
    /\ retry_count = DefaultRetryCount
    /\ attempt = 0
    /\ prompt = NoPrompt
    /\ requests = <<>>
    /\ outcomes = <<>>
    /\ gen_response = <<>>
    /\ gen_result = <<>>
    /\ gen_pc = "idle"

ValidatorIdle ==
    /\ val_pairs = <<>>
    /\ val_feedback = <<>>
    /\ val_result = <<>>
    /\ val_pc = "idle"

ContextManagerNew ==
    /\ context_history = <<>>
    /\ ctx_chunk = <<>>
    /\ ctx_ret = <<>>
    /\ ctx_pc = "idle"
    /\ ctx_before = <<>>
    /\ summaries = <<>>
    /\ ctx_calls = 0

PipelineNew ==
    /\ is_pdf = TRUE
    /\ arg_chunk_size = DefaultChunkSize
    /\ arg_overlap = DefaultOverlap
    /\ stats = InitialStats
    /\ all_qa_pairs = <<>>
    /\ context = None
    /\ chunk_index = 0
    /\ saved = <<>>
    /\ status = NoStatus
    /\ chunk_log = <<>>
    /\ run = 0
    /\ pd_pc = "idle"

\* create_chunks alone, on every text and configuration within the bounds
InitChunks ==
    /\ text \in Texts
    /\ chunk_size \in 1..MaxChunkSize
    /\ overlap \in 0..MaxOverlap
    /\ start = 0
    /\ end = 0
    /\ chunks = <<>>
    /\ windows = <<>>
    /\ cc_pc = "idle"
    /\ GeneratorIdle
    /\ ValidatorIdle
    /\ ContextManagerNew
    /\ PipelineNew

NextChunks ==
    \/ CreateChunksCall /\ UNCHANGED <<gen_vars, val_vars, ctx_vars, pd_vars>>
    \/ ChunkIterate /\ UNCHANGED <<gen_vars, val_vars, ctx_vars, pd_vars>>
    \/ ChunkRaise /\ UNCHANGED <<gen_vars, val_vars, ctx_vars, pd_vars>>
    \/ ChunkReturn /\ UNCHANGED <<gen_vars, val_vars, ctx_vars, pd_vars>>

SpecChunks == InitChunks /\ [][NextChunks]_vars

\* generate_qa_pairs alone, on every argument within the bounds
GenerateCall ==
    /\ gen_pc = "idle"
    /\ \E c \in GenChunks, ctx \in GenContexts, rc \in 0..MaxRetry :
          GenerateStart(c, ctx, rc)

InitGen == ChunkerOff /\ GeneratorIdle /\ ValidatorIdle /\ ContextManagerNew /\ PipelineNew

NextGen ==
    \/ GenerateCall /\ UNCHANGED <<chunker_vars, val_vars, ctx_vars, pd_vars>>
    \/ GenAttemptSucceeds /\ UNCHANGED <<chunker_vars, val_vars, ctx_vars, pd_vars>>
    \/ GenAttemptFails /\ UNCHANGED <<chunker_vars, val_vars, ctx_vars, pd_vars>>

SpecGen == InitGen /\ [][NextGen]_vars

\* _parse_qa_response alone, on every response of up to MaxLines lines
ResponseLineKinds ==
    { <<"Q", "1", ":", " ", "a">>,
      <<"A", "1", ":", " ", "b">>,
      <<"Q", "2", ":", "c">>,
      <<" ", "A", "2", ":", " ", "d", " ">>,
      <<"Q", "3", ":", " ", "e">>,
      <<"A", "3", ":", " ", "f">>,
      <<"Q", "u", "e", "s", "t", "i", "o", "n", ":">>,
      <<"A", "n", "s", "w", "e", "r", ":">>,
      <<"x">>,
      <<>> }

\* "\n".join(list)
RECURSIVE JoinLines(_)
JoinLines(list) ==
    IF list = <<>> THEN <<>>
    ELSE IF Len(list) = 1 THEN list[1]
    ELSE list[1] \o <<NL>> \o JoinLines(Tail(list))

ParserInputs ==
    {JoinLines(ls) : ls \in UNION { [1..n -> ResponseLineKinds] : n \in 0..MaxLines }}

ParseResponseCall ==
    /\ gen_pc = "idle"
    /\ gen_result' = ParseQAResponse(gen_response)
    /\ gen_pc' = "parsed"
    /\ UNCHANGED <<gen_chunk, gen_context, retry_count, attempt, prompt, requests, outcomes,
                   gen_response>>

InitParse ==
    /\ ChunkerOff
    /\ gen_chunk = <<>>
    /\ gen_context = None
    /\ retry_count = DefaultRetryCount
    /\ attempt = 0
    /\ prompt = NoPrompt
    /\ requests = <<>>
    /\ outcomes = <<>>
    /\ gen_response \in ParserInputs
    /\ gen_result = <<>>
    /\ gen_pc = "idle"
    /\ ValidatorIdle
    /\ ContextManagerNew
    /\ PipelineNew

NextParse == ParseResponseCall /\ UNCHANGED <<chunker_vars, val_vars, ctx_vars, pd_vars>>

SpecParse == InitParse /\ [][NextParse]_vars

\* validate_qa_pairs alone, on every batch and feedback within the bounds
BatchPairs ==
    { [question |-> <<"a">>, answer |-> <<"b">>, confidence |-> c, metadata |-> "groq_llama2"] :
         c \in {DefaultConfidence, InvalidConfidence} }
    \cup
    { [question |-> <<"c">>, answer |-> <<"d">>, confidence |-> DefaultConfidence,
       metadata |-> "groq_llama2"] }

Batches == UNION { [1..n -> BatchPairs] : n \in 0..MaxBatch }

ValidateCallOk ==
    /\ val_pc = "idle"
    /\ \E b \in Batches, f \in Feedbacks : ValidateOk(b, f)

ValidateCallFail ==
    /\ val_pc = "idle"
    /\ \E b \in Batches : ValidateFail(b)

InitVal == ChunkerOff /\ GeneratorIdle /\ ValidatorIdle /\ ContextManagerNew /\ PipelineNew

NextVal ==
    \/ ValidateCallOk /\ UNCHANGED <<chunker_vars, gen_vars, ctx_vars, pd_vars>>
    \/ ValidateCallFail /\ UNCHANGED <<chunker_vars, gen_vars, ctx_vars, pd_vars>>

SpecVal == InitVal /\ [][NextVal]_vars

\* update_context alone: up to MaxCalls calls on one ContextManager
PatternChunk(n) == [i \in 1..n |-> IF i % 3 = 0 THEN "b" ELSE "a"]

CtxChunks ==
    {PatternChunk(1)} \cup {PatternChunk(n) : n \in (FallbackLen - 1)..(FallbackLen + MaxExtra)}

UpdateContextCallOk ==
    /\ ctx_calls < MaxCalls
    /\ \E c \in CtxChunks, s \in Summaries : UpdateContextOk(c, s)

UpdateContextCallFail ==
    /\ ctx_calls < MaxCalls
    /\ \E c \in CtxChunks : UpdateContextFail(c)

InitCtx == ChunkerOff /\ GeneratorIdle /\ ValidatorIdle /\ ContextManagerNew /\ PipelineNew

NextCtx ==
    \/ UpdateContextCallOk /\ UNCHANGED <<chunker_vars, gen_vars, val_vars, pd_vars>>
    \/ UpdateContextCallFail /\ UNCHANGED <<chunker_vars, gen_vars, val_vars, pd_vars>>

SpecCtx == InitCtx /\ [][NextCtx]_vars

\* process_document on a new DatasetGenerator
Init == ChunkerOff /\ GeneratorIdle /\ ValidatorIdle /\ ContextManagerNew /\ PipelineNew

Next ==
    \/ ProcessDocumentCall
    \/ ExtractText
    \/ ExtractFails
    \/ CreateChunksCall /\ UNCHANGED <<gen_vars, val_vars, ctx_vars, pd_vars>>
    \/ ChunkIterate /\ UNCHANGED <<gen_vars, val_vars, ctx_vars, pd_vars>>
    \/ ChunkRaise /\ UNCHANGED <<gen_vars, val_vars, ctx_vars, pd_vars>>
    \/ ChunkReturn /\ UNCHANGED <<gen_vars, val_vars, ctx_vars, pd_vars>>
    \/ ChunksCreated
    \/ ChunkingRaised
    \/ StartChunk
    \/ ChunkGenerated /\ UNCHANGED <<chunker_vars, val_vars, ctx_vars, pd_vars>>
    \/ GenAttemptFails /\ UNCHANGED <<chunker_vars, val_vars, ctx_vars, pd_vars>>
    \/ ValidateChunk
    \/ ValidateChunkFails
    \/ SummarizeChunk
    \/ SummarizeChunkFails
    \/ SaveResults

Spec == Init /\ [][Next]_vars

\* process_file and repeated process_document calls: up to MaxRuns calls on one
\* DatasetGenerator, and process_file's construction of a new one
RunDocuments == {DocOne, DocEmpty, DocUnbroken}

\* generator = DatasetGenerator(api_key): new agents, new statistics
NewDatasetGenerator ==
    /\ pd_pc = "done"
    /\ text' = <<>> /\ chunk_size' = DefaultChunkSize /\ overlap' = DefaultOverlap
    /\ start' = 0 /\ end' = 0 /\ chunks' = <<>> /\ windows' = <<>> /\ cc_pc' = "off"
    /\ gen_chunk' = <<>> /\ gen_context' = None /\ retry_count' = DefaultRetryCount
    /\ attempt' = 0 /\ prompt' = NoPrompt /\ requests' = <<>> /\ outcomes' = <<>>
    /\ gen_response' = <<>> /\ gen_result' = <<>> /\ gen_pc' = "idle"
    /\ val_pairs' = <<>> /\ val_feedback' = <<>> /\ val_result' = <<>> /\ val_pc' = "idle"
    /\ context_history' = <<>> /\ ctx_chunk' = <<>> /\ ctx_ret' = <<>> /\ ctx_pc' = "idle"
    /\ ctx_before' = <<>> /\ summaries' = <<>> /\ ctx_calls' = 0
    /\ is_pdf' = TRUE /\ arg_chunk_size' = DefaultChunkSize /\ arg_overlap' = DefaultOverlap
    /\ stats' = InitialStats /\ all_qa_pairs' = <<>> /\ context' = None
    /\ chunk_index' = 0 /\ saved' = <<>> /\ status' = NoStatus /\ chunk_log' = <<>>
    /\ run' = 0 /\ pd_pc' = "idle"

NextRuns ==
    \/ ProcessDocumentCall
    \/ ProcessDocumentAgain
    \/ NewDatasetGenerator
    \/ ExtractTextFrom(RunDocuments)
    \/ ExtractFails
    \/ CreateChunksCall /\ UNCHANGED <<gen_vars, val_vars, ctx_vars, pd_vars>>
    \/ ChunkIterate /\ UNCHANGED <<gen_vars, val_vars, ctx_vars, pd_vars>>
    \/ ChunkRaise /\ UNCHANGED <<gen_vars, val_vars, ctx_vars, pd_vars>>
    \/ ChunkReturn /\ UNCHANGED <<gen_vars, val_vars, ctx_vars, pd_vars>>
    \/ ChunksCreated
    \/ ChunkingRaised
    \/ StartChunk
    \/ ChunkGenerated /\ UNCHANGED <<chunker_vars, val_vars, ctx_vars, pd_vars>>
    \/ GenAttemptFails /\ UNCHANGED <<chunker_vars, val_vars, ctx_vars, pd_vars>>
    \/ ValidateChunk
    \/ ValidateChunkFails
    \/ SummarizeChunk
    \/ SummarizeChunkFails
    \/ SaveResults

SpecRuns == Init /\ [][NextRuns]_vars

-----------------------------------------------------------------------------
(* Claims about create_chunks, checked under SpecChunks *)

ValidConfig == chunk_size >= 1 /\ 0 <= overlap /\ overlap < chunk_size

\* a step that is one completed iteration of the while loop
IterationStep == cc_pc = "loop" /\ cc_pc' = "loop" /\ windows' # windows

\* the windows processed cover the text and every chunk is trimmed and non-empty
WindowsCover ==
    /\ windows # <<>>
    /\ windows[1][1] = 0
    /\ \A i \in 1..(Len(windows) - 1) : windows[i + 1][1] <= windows[i][2]
    /\ \E i \in 1..Len(windows) : windows[i][2] >= Len(text)
    /\ \A p \in 1..Len(text) :
          text[p] \notin Whitespace =>
             \E i \in 1..Len(windows) :
                /\ windows[i][1] < p
                /\ p <= windows[i][2]
                /\ Strip(PySlice(text, windows[i][1], windows[i][2])) \in
                      {chunks[k] : k \in 1..Len(chunks)}
    /\ \A k \in 1..Len(chunks) : chunks[k] # <<>> /\ Strip(chunks[k]) = chunks[k]

\* C8: with chunk_size >= 1 and 0 <= overlap < chunk_size the window start
\* strictly increases on every loop iteration, so create_chunks terminates.
C8_StartStrictlyIncreases ==
    [][(ValidConfig /\ IterationStep) => start' > start]_vars

\* C9: whenever an iteration would advance start to end - overlap that is not
\* greater than the previous start (overlap >= chunk_size included),
\* create_chunks fails with an error or forces an advance of start.
C9_StallIsRejected ==
    [][(cc_pc = "loop" /\ windows' # windows /\ end' - overlap <= start)
          => (cc_pc' = "raised" \/ start' > start)]_vars

\* C10: for every non-empty text and valid configuration create_chunks returns
\* chunks whose windows cover the text (first window at 0, no gap between
\* consecutive windows, a window reaching len(text), every non-whitespace
\* character in a returned chunk), each chunk non-empty after trimming.
C10_ChunksCoverText ==
    (ValidConfig /\ text # <<>> /\ cc_pc \in {"returned", "raised"})
        => (cc_pc = "returned" /\ WindowsCover)

\* the part of C10 that the code keeps: a call that returns has covered the text
C10_ReturnedChunksCover ==
    (ValidConfig /\ text # <<>> /\ cc_pc = "returned") => WindowsCover

\* the loop is about to process a non-final window holding no boundary marker
NoMarkerWindow ==
    /\ cc_pc = "loop"
    /\ start < Len(text)
    /\ start + chunk_size < Len(text)
    /\ LET w == PySlice(text, start, start + chunk_size)
       IN  ~Contains(Paragraph, w) /\ ~Contains(Sentence, w) /\ ~Contains(Line, w)

\* C11: in a non-final window that contains none of the three boundary markers
\* create_chunks keeps the window at its full chunk_size length and continues
\* the loop without raising any error.
C11_NoMarkerKeepsFullWindow ==
    [][NoMarkerWindow =>
          /\ cc_pc' = "loop"
          /\ end' = start + chunk_size
          /\ windows' = Append(windows, <<start, start + chunk_size>>)
          /\ start' = start + chunk_size - overlap]_vars

\* the rightmost offset of each marker in the window of chunk_size characters
\* at s, -1 for a marker that does not occur
MarkerOffsets(s) ==
    LET w == PySlice(text, s, s + chunk_size)
    IN  [paragraph |-> RFind(w, Paragraph), sentence |-> RFind(w, Sentence),
         line |-> RFind(w, Line)]

\* window i was not the final one and held at least one marker
SnappedWindow(i) ==
    /\ windows[i][1] + chunk_size < Len(text)
    /\ \E k \in {"paragraph", "sentence", "line"} : MarkerOffsets(windows[i][1])[k] # -1

\* C19: a non-final window in which a boundary marker occurs is cut at
\* start + m + 1, m being the largest of the rightmost offsets of the markers
\* found; a double newline at offset p comes with a newline at p + 1, so m is
\* the larger of the sentence and line offsets and never the paragraph offset.
C19_BreakAtLargestOffset ==
    \A i \in 1..Len(windows) :
        SnappedWindow(i) =>
            LET s == windows[i][1]
                at == MarkerOffsets(s)
                m == Max({at.paragraph, at.sentence, at.line})
            IN  /\ windows[i][2] = s + m + 1
                /\ m = Max({at.sentence, at.line})
                /\ at.paragraph # -1 => (at.line >= at.paragraph + 1 /\ m > at.paragraph)

\* a window holding a double newline was cut after its second newline, and
\* a window whose sentence marker lies right of its newline was cut there
C19_Witness ==
    /\ \E i \in 1..Len(windows) :
          /\ SnappedWindow(i)
          /\ MarkerOffsets(windows[i][1]).paragraph # -1
          /\ windows[i][2] = windows[i][1] + MarkerOffsets(windows[i][1]).paragraph + 2
    /\ \E i \in 1..Len(windows) :
          /\ SnappedWindow(i)
          /\ MarkerOffsets(windows[i][1]).line # -1
          /\ MarkerOffsets(windows[i][1]).sentence > MarkerOffsets(windows[i][1]).line
          /\ windows[i][2] = windows[i][1] + MarkerOffsets(windows[i][1]).sentence + 1

\* the windows processed so far that reach the end of the text
FinalWindows == {i \in 1..Len(windows) : windows[i][2] >= Len(text)}

\* C21: create_chunks processes exactly one window that reaches the end of the
\* text: once a window with end >= len(text) has been processed the loop ends,
\* so with 0 < overlap < chunk_size no further chunk is emitted that is only a
\* suffix of the last one.
C21_OneFinalWindow ==
    (ValidConfig /\ overlap > 0) =>
        /\ Cardinality(FinalWindows) <= 1
        /\ (cc_pc = "loop" /\ FinalWindows # {}) => start >= Len(text)
        /\ (cc_pc = "returned" /\ text # <<>>) => Cardinality(FinalWindows) = 1

\* the part of C21 that the code keeps: without overlap the first window that
\* reaches the end of the text is the last one processed
C21_OneFinalWindowWithoutOverlap ==
    (chunk_size >= 1 /\ overlap = 0) =>
        /\ Cardinality(FinalWindows) <= 1
        /\ (cc_pc = "loop" /\ FinalWindows # {}) => start >= Len(text)

-----------------------------------------------------------------------------
(* Claims about generate_qa_pairs, checked under SpecGen *)

AllRequestsFailed == \A i \in 1..Len(outcomes) : outcomes[i] = "failed"

OnePairResponse == <<"Q", "1", ":", " ", "a", NL, "A", "1", ":", " ", "b">>

\* C3 as stated: at most retry_count + 1 requests, stop at the first success
\* and return its parsed pairs, and an empty sequence is returned exactly when
\* all retry_count + 1 requests fail.
C3_EmptyExactlyWhenAllFail ==
    /\ Len(requests) <= retry_count + 1
    /\ gen_pc = "returned" =>
          /\ \A i \in 1..(Len(outcomes) - 1) : outcomes[i] = "failed"
          /\ ~AllRequestsFailed => gen_result = ParseQAResponse(gen_response)
          /\ gen_result = <<>> <=> (AllRequestsFailed /\ Len(requests) = retry_count + 1)

\* C3 amended: generate_qa_pairs issues at most retry_count + 1 requests, stops
\* at the first request that succeeds and returns the parsed pairs of that
\* response (which may be no pair at all), and returns an empty sequence
\* whenever all retry_count + 1 requests fail.
C3_BoundedRetry ==
    /\ Len(requests) <= retry_count + 1
    /\ Len(outcomes) = Len(requests)
    /\ gen_pc = "trying" => (attempt = Len(requests) /\ AllRequestsFailed)
    /\ gen_pc = "returned" =>
          /\ Len(requests) >= 1
          /\ \A i \in 1..(Len(outcomes) - 1) : outcomes[i] = "failed"
          /\ outcomes[Len(outcomes)] = "ok" =>
                gen_result = ParseQAResponse(gen_response)
          /\ outcomes[Len(outcomes)] = "failed" =>
                (Len(requests) = retry_count + 1 /\ gen_result = <<>>)

\* every request of the budget failed and the call returned the empty list
C3_Witness ==
    /\ gen_pc = "returned"
    /\ retry_count = 2
    /\ outcomes = <<"failed", "failed", "failed">>
    /\ gen_result = <<>>

\* C4: the first request of a call carries the QA_GENERATION prompt and every
\* later one the ERROR_RECOVERY prompt for the same chunk and context; when
\* the first request fails and the second succeeds with one valid Q/A line
\* pair, one QAPair is returned and one request used the recovery prompt.
C4_RecoveryPromptOnRetries ==
    /\ \A i \in 1..Len(requests) :
          /\ requests[i].template = IF i = 1 THEN "QA_GENERATION" ELSE "ERROR_RECOVERY"
          /\ requests[i].text_content = gen_chunk
          /\ requests[i].context_instruction = requests[1].context_instruction
    /\ (gen_pc = "returned" /\ outcomes = <<"failed", "ok">>
           /\ gen_response = OnePairResponse) =>
          /\ Len(gen_result) = 1
          /\ gen_result[1].question = <<"a">>
          /\ gen_result[1].answer = <<"b">>
          /\ Cardinality({i \in 1..Len(requests) :
                             requests[i].template = "ERROR_RECOVERY"}) = 1

\* the first request failed and the second one succeeded with one Q/A pair
C4_Witness ==
    /\ gen_pc = "returned"
    /\ outcomes = <<"failed", "ok">>
    /\ gen_response = OnePairResponse
    /\ Len(gen_result) = 1
    /\ requests[2].template = "ERROR_RECOVERY"

-----------------------------------------------------------------------------
(* Claims about _parse_qa_response, checked under SpecParse *)

NumberedQuestionPrefixes == { <<"Q", "1", ":">>, <<"Q", "2", ":">>, <<"Q", "3", ":">> }
NumberedAnswerPrefixes == { <<"A", "1", ":">>, <<"A", "2", ":">>, <<"A", "3", ":">> }

\* the text of a line after its first colon
TextAfterColon(line) ==
    SubSeq(line, 1 + Min({i \in 1..Len(line) : line[i] = ":"}), Len(line))

\* a line with one of the given prefixes and text other than blanks after it
PrefixedLine(line, prefixes) ==
    /\ \E p \in prefixes : Len(line) >= Len(p) /\ SubSeq(line, 1, Len(p)) = p
    /\ \E i \in 1..Len(TextAfterColon(line)) : TextAfterColon(line)[i] \notin Whitespace

\* strictly alternating question and answer lines, a question first
WellFormed(lines) ==
    /\ Len(lines) >= 2
    /\ Len(lines) % 2 = 0
    /\ \A i \in 1..Len(lines) :
          IF i % 2 = 1 THEN PrefixedLine(lines[i], NumberedQuestionPrefixes)
          ELSE PrefixedLine(lines[i], NumberedAnswerPrefixes)

\* C14: for response text of strictly alternating Q1:/A1:/Q2:/A2:/Q3:/A3:
\* lines with text after the colon, _parse_qa_response returns exactly one
\* QAPair per question/answer line pair, in line order, each made of a question
\* and of the answer line that immediately follows it.
C14_OnePairPerLinePair ==
    (gen_pc = "parsed" /\ WellFormed(SplitLines(gen_response))) =>
        LET lines == SplitLines(gen_response)
        IN  /\ Len(gen_result) * 2 = Len(lines)
            /\ \A k \in 1..Len(gen_result) :
                  /\ gen_result[k].question = Strip(TextAfterColon(lines[2 * k - 1]))
                  /\ gen_result[k].answer = Strip(TextAfterColon(lines[2 * k]))
                  /\ gen_result[k].confidence = 10

\* two line pairs, the second with the prefixes Q3: and A3:
C14_Witness ==
    /\ gen_pc = "parsed"
    /\ gen_response = <<"Q", "1", ":", " ", "a", NL, "A", "1", ":", " ", "b", NL,
                        "Q", "3", ":", " ", "e", NL, "A", "3", ":", " ", "f">>
    /\ Len(gen_result) = 2
    /\ gen_result[1].question = <<"a">> /\ gen_result[1].answer = <<"b">>
    /\ gen_result[2].question = <<"e">> /\ gen_result[2].answer = <<"f">>

IsQuestionLine(line) == \E p \in QuestionPrefixes : StartsWith(line, p)
IsAnswerLine(line) == ~IsQuestionLine(line) /\ \E p \in AnswerPrefixes : StartsWith(line, p)

\* the positions of the question and answer lines
MarkedLines(lines) ==
    {i \in 1..Len(lines) : IsQuestionLine(lines[i]) \/ IsAnswerLine(lines[i])}

\* the positions of the question lines whose next question-or-answer line is
\* an answer line
AnsweredQuestions(lines) ==
    {i \in 1..Len(lines) :
        /\ IsQuestionLine(lines[i])
        /\ \E j \in MarkedLines(lines) :
              /\ j > i
              /\ IsAnswerLine(lines[j])
              /\ \A m \in MarkedLines(lines) : m > i => m >= j}

AnswerOf(lines, i) == Min({j \in MarkedLines(lines) : j > i})

\* the members of a set of positions in increasing order
InOrder(S) == [k \in 1..Cardinality(S) |-> CHOOSE i \in S : Cardinality({j \in S : j <= i}) = k]

\* the question and answer texts of the answered questions, those with an
\* empty text left out
ExpectedTexts(lines) ==
    LET idx == InOrder(AnsweredQuestions(lines))
        all == [k \in 1..Len(idx) |->
                  <<Strip(TextAfterColon(lines[idx[k]])),
                    Strip(TextAfterColon(lines[AnswerOf(lines, idx[k])]))>>]
        Filled(p) == p[1] # <<>> /\ p[2] # <<>>
    IN  SelectSeq(all, Filled)

\* C15: _parse_qa_response emits a pair for a question line only if the next
\* question-or-answer line after it is an answer line; a question followed by
\* a question or by the end of input, an answer with no pending question and
\* a line of neither kind yield nothing.
C15_PairsOnlyForAnsweredQuestions ==
    gen_pc = "parsed" =>
        LET lines == ResponseLines(gen_response)
            expected == ExpectedTexts(lines)
        IN  /\ Len(gen_result) <= Cardinality(AnsweredQuestions(lines))
            /\ Len(gen_result) = Len(expected)
            /\ \A k \in 1..Len(gen_result) :
                  <<gen_result[k].question, gen_result[k].answer>> = expected[k]

\* an answer with no pending question, then a question followed by a
\* question, which is answered: one pair
C15_Witness ==
    /\ gen_pc = "parsed"
    /\ gen_response = <<"A", "1", ":", " ", "b", NL, "Q", "1", ":", " ", "a", NL,
                        "Q", "2", ":", "c", NL, " ", "A", "2", ":", " ", "d", " ">>
    /\ Len(gen_result) = 1
    /\ gen_result[1].question = <<"c">>
    /\ gen_result[1].answer = <<"d">>

-----------------------------------------------------------------------------
(* Claims about the validator, checked under SpecVal *)

LowerValidMarker == <<"v", "a", "l", "i", "d", ":", " ", "t", "r", "u", "e">>

\* C1: after a successful validation request every pair of the batch has
\* confidence 1.0 if the feedback contains "valid: true" case-insensitively,
\* and confidence 0.5 if it does not.
C1_ConfidenceFollowsMarker ==
    val_pc = "applied" =>
        \A i \in 1..Len(val_result) :
            val_result[i].confidence =
                IF Contains(LowerValidMarker, Lower(val_feedback)) THEN 10 ELSE 5

\* C16: validate_qa_pairs returns the same pairs in the same number and order
\* as its input, changing nothing but the confidence field, whether the
\* request succeeds or fails; when the request fails the confidence of every
\* pair keeps its prior value too.
C16_ValidationKeepsPairs ==
    val_pc \in {"applied", "failed"} =>
        /\ Len(val_result) = Len(val_pairs)
        /\ \A i \in 1..Len(val_pairs) :
              /\ val_result[i].question = val_pairs[i].question
              /\ val_result[i].answer = val_pairs[i].answer
              /\ val_result[i].metadata = val_pairs[i].metadata
              /\ val_pc = "failed" => val_result[i].confidence = val_pairs[i].confidence

\* a failed request on two different pairs, one of them at confidence 0.5
C16_Witness ==
    /\ val_pc = "failed"
    /\ Len(val_pairs) = 2
    /\ val_pairs[1].question # val_pairs[2].question
    /\ val_pairs[1].confidence = 5
    /\ val_pairs[2].confidence = 10
    /\ val_result = val_pairs

-----------------------------------------------------------------------------
(* Claims about the context manager, checked under SpecCtx *)

\* the last n elements of a list
LastN(list, n) == SubSeq(list, Len(list) - n + 1, Len(list))

RecentSummaries == LastN(summaries, IF Len(summaries) < 3 THEN Len(summaries) ELSE 3)

\* one, two or three strings with a single space between neighbours
SpaceSeparated(list) ==
    IF Len(list) = 1 THEN list[1]
    ELSE IF Len(list) = 2 THEN list[1] \o <<" ">> \o list[2]
    ELSE list[1] \o <<" ">> \o list[2] \o <<" ">> \o list[3]

\* C6: context_history never holds more than 3 summaries, it holds the
\* min(n, 3) most recent successful summaries in order, and a successful
\* update_context returns them joined by single spaces.
C6_RecentSummariesJoined ==
    /\ Len(context_history) <= 3
    /\ context_history = RecentSummaries
    /\ ctx_pc = "ok" => ctx_ret = SpaceSeparated(RecentSummaries)

\* a fourth successful summary has pushed out the first one
C6_Witness ==
    /\ ctx_pc = "ok"
    /\ Len(summaries) = 4
    /\ summaries[1] = <<"s">>
    /\ context_history = <<<<"t">>, <<"t">>, <<"t">>>>
    /\ ctx_ret = <<"t", " ", "t", " ", "t">>

\* C7: a failing update_context leaves context_history as it was and returns
\* the last 500 characters of the chunk, the whole chunk when it is shorter.
C7_FailureKeepsHistory ==
    ctx_pc = "failed" =>
        /\ context_history = ctx_before
        /\ Len(ctx_ret) = (IF Len(ctx_chunk) < 500 THEN Len(ctx_chunk) ELSE 500)
        /\ \A i \in 1..Len(ctx_ret) :
              ctx_ret[i] = ctx_chunk[Len(ctx_chunk) - Len(ctx_ret) + i]

\* a call on a chunk longer than 500 characters failed with history present
C7_Witness ==
    /\ ctx_pc = "failed"
    /\ Len(ctx_chunk) > 500
    /\ Len(ctx_ret) = 500
    /\ context_history # <<>>
    /\ context_history = ctx_before

-----------------------------------------------------------------------------
(* Claims about process_document, checked under Spec *)

\* the chunk iterations completed whose generation failed on every attempt
ExhaustedChunks == {k \in 1..Len(chunk_log) : chunk_log[k].gen_exhausted}

\* C2: each chunk for which generate_qa_pairs returned an empty sequence
\* because all its attempts failed adds one to failed_chunks, and the chunks
\* after it are still processed.
C2_FailedChunksCounted ==
    /\ stats.failed_chunks = Cardinality(ExhaustedChunks)
    /\ status.kind = "success" => Len(chunk_log) = Len(chunks)

\* the second half of C2, which the code keeps: a chunk whose generation
\* failed does not stop the run, and it contributes no pair
C2_RunContinuesAfterFailure ==
    /\ status.kind = "success" => Len(chunk_log) = Len(chunks)
    /\ \A k \in ExhaustedChunks : chunk_log[k].validated = 0

\* C5: the first chunk is generated with no context, and chunk k + 1 is
\* generated with exactly the value update_context returned for chunk k,
\* whether or not requests failed on the way.
C5_OneChunkLag ==
    /\ \A k \in 1..Len(chunk_log) :
          /\ chunk_log[k].chunk = chunks[k]
          /\ chunk_log[k].ctx_chunk = chunks[k]
          /\ chunk_log[k].context =
                (IF k = 1 THEN None ELSE Some(chunk_log[k - 1].ctx_ret))
          /\ chunk_log[k].ctx_outcome = "failed" =>
                chunk_log[k].ctx_ret =
                    LastN(chunks[k], IF Len(chunks[k]) < 500 THEN Len(chunks[k]) ELSE 500)
    /\ pd_pc \in {"generating", "summarizing"} =>
          /\ chunk_index = Len(chunk_log) + 1
          /\ gen_chunk = chunks[chunk_index]
          /\ gen_context =
                (IF chunk_index = 1 THEN None
                 ELSE Some(chunk_log[chunk_index - 1].ctx_ret))

\* a three-chunk run in which every generation attempt and the summary of
\* chunk 2 failed: chunk 3 was generated with the fallback context of chunk 2
C5_Witness ==
    /\ status.kind = "success"
    /\ chunks = <<<<"a">>, <<"b">>, <<"c">>>>
    /\ Len(chunk_log) = 3
    /\ chunk_log[1].ctx_outcome = "ok"
    /\ chunk_log[2].gen_exhausted
    /\ chunk_log[2].ctx_outcome = "failed"
    /\ chunk_log[2].context = Some(<<"s">>)
    /\ chunk_log[3].context = Some(<<"b">>)


\* C12: whenever text extraction succeeds, process_document completes by
\* calling save_qa_pairs exactly once with all the pairs accumulated and
\* returning the success status with the run statistics; no chunk and no
\* chunking step aborts the run.
C12_RunAlwaysCompletes ==
    (pd_pc = "done" /\ status.error # "extraction") =>
        /\ status.kind = "success"
        /\ status.stats = stats
        /\ Len(saved) = 1
        /\ saved[1].qa_pairs = all_qa_pairs
        /\ Len(chunk_log) = Len(chunks)

\* the part of C12 that the code keeps: once create_chunks has returned, no
\* pattern of backend failures aborts the run or skips the save
C12_BackendFailuresNeverAbort ==
    (pd_pc = "done" /\ cc_pc = "returned") =>
        /\ status.kind = "success"
        /\ status.stats = stats
        /\ Len(saved) = 1
        /\ saved[1].qa_pairs = all_qa_pairs
        /\ Len(chunk_log) = Len(chunks)

-----------------------------------------------------------------------------
(* Claims about repeated runs and failed extractions, checked under SpecRuns *)

\* a step that enters process_document, or the step of a failed extraction
\* that leaves it: together they are the whole of a run whose extraction fails
FailedExtractionStep ==
    \/ pd_pc' = "extract" /\ pd_pc # "extract"
    \/ pd_pc = "extract" /\ pd_pc' = "done"

\* C13: if text extraction fails, process_document returns a single error
\* status, never calls save_qa_pairs, makes no backend request and leaves all
\* run statistics unchanged.
C13_FailedExtractionChangesNothing ==
    [][FailedExtractionStep =>
          /\ saved' = saved
          /\ stats' = stats
          /\ requests' = requests
          /\ ctx_calls' = ctx_calls
          /\ UNCHANGED <<gen_vars, val_vars, ctx_vars>>
          /\ (pd_pc = "extract" /\ pd_pc' = "done") =>
                (status'.kind = "error" /\ status'.error = "extraction")]_vars

\* a second run on a DatasetGenerator that has saved pairs fails at extraction
C13_Witness ==
    /\ pd_pc = "done"
    /\ run = 2
    /\ status.kind = "error"
    /\ status.error = "extraction"
    /\ Len(saved) = 1
    /\ stats.total_qa_pairs = 1
    /\ Len(requests) > 0

-----------------------------------------------------------------------------
(* Claims about the configuration and the statistics, checked under Spec *)

\* the chunks of the iterations completed, in order
ProcessedChunks == [k \in 1..Len(chunk_log) |-> chunk_log[k].chunk]

\* C17: the chunks process_document processes are exactly those create_chunks
\* produces for the extracted text with the chunk_size and overlap passed by
\* the caller, whatever these values are.
C17_ChunksFollowArguments ==
    (pd_pc = "done" /\ status.kind = "success") =>
        /\ CreateChunks(text, arg_chunk_size, arg_overlap).outcome = "returned"
        /\ ProcessedChunks = CreateChunks(text, arg_chunk_size, arg_overlap).chunks

\* what the code does instead: the chunks are those of the configuration the
\* TextProcessingAgent was constructed with
C17_ChunksFollowConstructor ==
    pd_pc \notin {"idle", "extract"} =>
        /\ chunk_size = DefaultChunkSize
        /\ overlap = DefaultOverlap
        /\ \A k \in 1..Len(chunk_log) : chunk_log[k].chunk = chunks[k]
        /\ status.kind = "success" => Len(chunk_log) = Len(chunks)

\* the number of pairs of a list whose confidence is greater than 0.8
HighIn(pairs) == Cardinality({i \in 1..Len(pairs) : pairs[i].confidence > 8})

\* the statistics st count the pairs of the list, split at confidence 0.8
StatsCount(st, pairs) ==
    /\ st.total_qa_pairs = st.high_confidence + st.low_confidence
    /\ st.total_qa_pairs = Len(pairs)
    /\ st.high_confidence = HighIn(pairs)
    /\ st.low_confidence = Len(pairs) - HighIn(pairs)

\* C20: in a run on a new DatasetGenerator, after every chunk iteration and at
\* the end of the run, total_qa_pairs equals high_confidence + low_confidence
\* and the length of the accumulated list passed to save_qa_pairs, a pair
\* counting as high confidence exactly when its confidence is above 0.8,
\* whatever requests fail.
C20_StatsMatchPairs ==
    /\ StatsCount(stats, all_qa_pairs)
    /\ \A k \in 1..Len(saved) : StatsCount(saved[k].stats, saved[k].qa_pairs)
    /\ status.kind = "success" =>
          (Len(saved) = 1 /\ StatsCount(status.stats, saved[1].qa_pairs))

\* a run of three chunks, one pair each, whose second validation request
\* failed: one pair at 1.0 and two at 0.5 were saved
C20_Witness ==
    /\ status.kind = "success"
    /\ Len(chunk_log) = 3
    /\ Len(saved) = 1
    /\ Len(saved[1].qa_pairs) = 3
    /\ saved[1].qa_pairs[1].confidence = 5
    /\ saved[1].qa_pairs[2].confidence = 10
    /\ saved[1].stats.total_qa_pairs = 3
    /\ saved[1].stats.high_confidence = 1
    /\ saved[1].stats.low_confidence = 2

-----------------------------------------------------------------------------
(* Claims about the state a run starts with, checked under SpecRuns *)

\* C18: every process_document run starts with total_qa_pairs, failed_chunks,
\* high_confidence and low_confidence at zero and with an empty context
\* history, a second run on the same DatasetGenerator included.
C18_RunStartsClean ==
    pd_pc = "extract" =>
        /\ stats.total_qa_pairs = 0
        /\ stats.failed_chunks = 0
        /\ stats.high_confidence = 0
        /\ stats.low_confidence = 0
        /\ context_history = <<>>

\* the part of C18 that the code keeps: the first run on a DatasetGenerator,
\* which is every run process_file starts, begins with zero statistics and an
\* empty history
C18_FirstRunStartsClean ==
    (pd_pc = "extract" /\ run = 1) =>
        /\ stats = InitialStats
        /\ context_history = <<>>
====
